---- MODULE Spec2Model ----
(***************************************************************************)
(* pit-wall: a progress tracker (src/src/lib.rs).                          *)
(*                                                                         *)
(* The tracker holds a name, a start instant, a work total and a work-done *)
(* counter.  Mutators advance or overwrite the counter, the estimator      *)
(* extrapolates the remaining time linearly in f64 arithmetic, and the     *)
(* formatter renders one status line.                                      *)
(*                                                                         *)
(* Numbers.  u64 is modelled as an unsigned word of Width bits.  f64       *)
(* values are modelled bit-exactly for the operations the code performs on *)
(* them (u64 -> f64 conversion, one division of two converted integers,    *)
(* one multiplication by a converted integer, the cast back to u64 and the *)
(* {:.1} rendering): a finite positive value is a 53-bit significand, kept *)
(* as a sequence of bits with the most significant bit first, and the      *)
(* exponent of its last bit; every operation rounds to nearest, ties to    *)
(* even, as IEEE 754 does.  Strings are sequences of one-character         *)
(* strings.  Instants and durations are counted in milliseconds.           *)
(***************************************************************************)
EXTENDS Integers, Sequences, FiniteSets, TLC

\* ---------------------------------------------------------------- bounds

\* Bits of the modelled u64 word.
Width == 12

\* Largest work_total and largest small work_done of the state machine.
MaxWork == 2

\* Largest units argument of inc_work_done_by.
MaxUnits == 2

\* The clock of the state machine stops after this many clock steps.
MaxSteps == 4

\* Largest work_total and whole seconds of elapsed time of the estimator
\* specification.
EstMaxTotal == 26
EstMaxSecs == 11

\* ------------------------------------------------------- program constants

\* Significand bits of an f64.
F64Digits == 53

\* Milliseconds per second (Duration::as_secs drops the sub-second part).
MillisPerSec == 1000

\* Milliseconds the clock advances in one clock step: half a second, so that
\* the clock is read within a second as well as on whole seconds.
TickMillis == MillisPerSec \div 2

\* u64::MAX of the modelled word.
U64Max == 2^Width - 1

\* ------------------------------------------------------------ bit strings
\* A bit string is a sequence of 0s and 1s, the most significant bit first.
\* Long operations work on chunks of ChunkBits bits, which keeps every
\* intermediate integer below 2^31.

ChunkBits == 15

\* The w-bit string of n < 2^w.
FixedBits(n, w) == [i \in 1..w |-> (n \div 2^(w - i)) % 2]

\* The number of binary digits of n < 2^30.
BitLen(n) == CHOOSE k \in 0..30 : n < 2^k /\ (k = 0 \/ n >= 2^(k - 1))

\* The binary digits of n, none for 0.
Bits(n) == FixedBits(n, BitLen(n))

\* The number the bits i..j of bs denote, at most 30 bits.
RECURSIVE BitsToNat(_, _, _)
BitsToNat(bs, i, j) ==
    IF j < i THEN 0 ELSE 2 * BitsToNat(bs, i, j - 1) + bs[j]

AnyOne(bs) == \E i \in 1..Len(bs) : bs[i] = 1

\* bs without its leading zeros.
StripZeros(bs) ==
    IF ~AnyOne(bs) THEN <<>>
    ELSE SubSeq(bs, CHOOSE i \in 1..Len(bs) : bs[i] = 1 /\ \A j \in 1..(i - 1) : bs[j] = 0,
                Len(bs))

\* bs + 1 for a bit string that is not all ones.
IncBits(bs) ==
    LET z == CHOOSE i \in 1..Len(bs) : bs[i] = 0 /\ \A j \in (i + 1)..Len(bs) : bs[j] = 1
    IN  [i \in 1..Len(bs) |-> IF i < z THEN bs[i] ELSE IF i = z THEN 1 ELSE 0]

\* The first n bits of bs times s, plus carry, in front of acc, for a small
\* multiplier s >= 1: schoolbook multiplication, a chunk at a time from the
\* last chunk to the first, the carry in front.
RECURSIVE MulBits(_, _, _, _, _)
MulBits(bs, n, s, carry, acc) ==
    IF n = 0 THEN Bits(carry) \o acc
    ELSE LET c == IF n < ChunkBits THEN n ELSE ChunkBits
             t == BitsToNat(bs, n - c + 1, n) * s + carry
         IN  MulBits(bs, n - c, s, t \div 2^c, FixedBits(t % 2^c, c) \o acc)

\* ------------------------------------------------------------------- f64

NaN == [k |-> "nan", m |-> <<>>, e |-> 0]
Inf == [k |-> "inf", m |-> <<>>, e |-> 0]
Zero == [k |-> "zero", m |-> <<>>, e |-> 0]

\* The f64 nearest to bs * 2^e, ties to even, for a bit string bs of at
\* least 53 bits with a leading 1; sticky says that the exact value has
\* further nonzero bits after bs.
RoundToF64(bs, e, sticky) ==
    LET drop == Len(bs) - F64Digits
        top == SubSeq(bs, 1, F64Digits)
        guard == IF drop > 0 THEN bs[F64Digits + 1] ELSE 0
        rest == sticky \/ (drop > 1 /\ AnyOne(SubSeq(bs, F64Digits + 2, Len(bs))))
        up == guard = 1 /\ (rest \/ top[F64Digits] = 1)
    IN  IF ~up THEN [k |-> "fin", m |-> top, e |-> e + drop]
        ELSE IF \E i \in 1..F64Digits : top[i] = 0
             THEN [k |-> "fin", m |-> IncBits(top), e |-> e + drop]
             ELSE [k |-> "fin", m |-> [i \in 1..F64Digits |-> IF i = 1 THEN 1 ELSE 0],
                   e |-> e + drop + 1]

\* The chunks long division of r / b (r < b) needs for a full significand
\* after any leading zeros.
FracChunks == (Width + F64Digits + ChunkBits) \div ChunkBits

\* n more chunks of quotient bits of r / b (r < b) after the bits acc.
RECURSIVE QuotBits(_, _, _, _)
QuotBits(r, b, n, acc) ==
    IF n = 0 THEN [bits |-> acc, rem |-> r]
    ELSE QuotBits((r * 2^ChunkBits) % b, b, n - 1,
                  acc \o FixedBits((r * 2^ChunkBits) \div b, ChunkBits))

\* `a as f64 / b as f64` for two u64 values, both exact in f64.
DivU64AsF64(a, b) ==
    IF b = 0 THEN (IF a = 0 THEN NaN ELSE Inf)
    ELSE IF a = 0 THEN Zero
    ELSE LET q == QuotBits(a % b, b, FracChunks, Bits(a \div b))
         IN  RoundToF64(StripZeros(q.bits), 0 - FracChunks * ChunkBits, q.rem # 0)

\* `x * (s as f64)` for an f64 x and a u64 s that is exact in f64.
F64MulU64(x, s) ==
    IF x.k = "nan" THEN NaN
    ELSE IF x.k = "inf" THEN (IF s = 0 THEN NaN ELSE Inf)
    ELSE IF x.k = "zero" \/ s = 0 THEN Zero
    ELSE RoundToF64(MulBits(x.m, F64Digits, s, 0, <<>>), x.e, FALSE)

\* A cast that takes every non-finite value to 0.
F64ToU64NonFiniteZero(x) ==
    IF x.k # "fin" THEN 0
    ELSE LET intlen == F64Digits + x.e
         IN  IF intlen <= 0 THEN 0
             ELSE IF intlen > Width THEN U64Max
             ELSE BitsToNat(x.m, 1, intlen)

\* `x as u64`: truncation toward zero, NaN to 0, saturation at u64::MAX.
F64ToU64(x) ==
    IF x.k = "nan" \/ x.k = "zero" THEN 0
    ELSE IF x.k = "inf" THEN U64Max
    ELSE LET intlen == F64Digits + x.e
         IN  IF intlen <= 0 THEN 0
             ELSE IF intlen > Width THEN U64Max
             ELSE BitsToNat(x.m, 1, intlen)

\* --------------------------------------------------------------- strings

DigitChars == <<"0", "1", "2", "3", "4", "5", "6", "7", "8", "9">>

\* Display of an unsigned integer ({} of a u64).
RECURSIVE Decimal(_)
Decimal(n) ==
    IF n < 10 THEN <<DigitChars[n + 1]>>
    ELSE Append(Decimal(n \div 10), DigitChars[(n % 10) + 1])

\* {:.1} of a non-negative f64: the exact value rounded to one decimal,
\* ties to even; NaN and inf by name.
FormatF64Prec1(x) ==
    IF x.k = "nan" THEN <<"N", "a", "N">>
    ELSE IF x.k = "inf" THEN <<"i", "n", "f">>
    ELSE IF x.k = "zero" THEN <<"0", ".", "0">>
    ELSE LET t == MulBits(x.m, F64Digits, 10, 0, <<>>)
             intlen == Len(t) + x.e
             whole == IF intlen <= 0 THEN 0 ELSE BitsToNat(t, 1, intlen)
             guard == IF intlen >= 0 /\ intlen < Len(t) THEN t[intlen + 1] ELSE 0
             rest == intlen + 1 < Len(t)
                     /\ AnyOne(SubSeq(t, (IF intlen < 0 THEN 0 ELSE intlen) + 2, Len(t)))
             up == guard = 1 /\ (rest \/ whole % 2 = 1)
             tenths == IF up THEN whole + 1 ELSE whole
         IN  Decimal(tenths \div 10) \o <<".">> \o Decimal(tenths % 10)

\* {:.0?} of a Duration given in milliseconds: whole seconds once a second
\* has passed, whole milliseconds below that, "0ns" for the zero duration.
\* An exact half second after an even number of seconds is a tie; tieEven
\* says whether the formatter resolves ties to even or upward.
DurationDebug0(ms, tieEven) ==
    LET secs == ms \div MillisPerSec
        frac == ms % MillisPerSec
        up == 2 * frac > MillisPerSec
              \/ (2 * frac = MillisPerSec /\ (~tieEven \/ secs % 2 = 1))
    IN  IF secs > 0 THEN Decimal(IF up THEN secs + 1 ELSE secs) \o <<"s">>
        ELSE IF ms > 0 THEN Decimal(ms) \o <<"m", "s">>
        ELSE <<"0", "n", "s">>

SecsPerYear == 31557600
SecsPerMonth == 2630016
SecsPerDay == 86400
SecsPerHour == 3600
SecsPerMinute == 60

\* One item of humantime's rendering: nothing for a zero count, otherwise
\* the count and the unit, a plural "s" where the unit takes one.
Item(started, n, unit, plural) ==
    IF n = 0 THEN <<>>
    ELSE (IF started THEN <<" ">> ELSE <<>>) \o Decimal(n) \o unit
         \o (IF plural /\ n > 1 THEN <<"s">> ELSE <<>>)

\* humantime::format_duration of a Duration of whole seconds.
FormatDuration(secs) ==
    LET years == secs \div SecsPerYear
        ydays == secs % SecsPerYear
        months == ydays \div SecsPerMonth
        mdays == ydays % SecsPerMonth
        days == mdays \div SecsPerDay
        daySecs == mdays % SecsPerDay
        hours == daySecs \div SecsPerHour
        minutes == (daySecs % SecsPerHour) \div SecsPerMinute
        seconds == daySecs % SecsPerMinute
        y == Item(FALSE, years, <<"y", "e", "a", "r">>, TRUE)
        mo == y \o Item(y # <<>>, months, <<"m", "o", "n", "t", "h">>, TRUE)
        d == mo \o Item(mo # <<>>, days, <<"d", "a", "y">>, TRUE)
        h == d \o Item(d # <<>>, hours, <<"h">>, FALSE)
        m == h \o Item(h # <<>>, minutes, <<"m">>, FALSE)
        s == m \o Item(m # <<>>, seconds, <<"s">>, FALSE)
    IN  IF secs = 0 THEN <<"0", "s">> ELSE s

Done == <<"d", "o", "n", "e", "!">>

\* ------------------------------------------------------------- estimator

\* work_total.checked_sub(work_done).unwrap_or(work_total)
WorkNotDone(wt, wd) == IF wd > wt THEN wt ELSE wt - wd

\* The ratio upside down: done to not done.
DoneToNotDoneRatio(wt, wd) == DivU64AsF64(wd, WorkNotDone(wt, wd))

\* work_not_done as f64 / work_done as f64
NotDoneToDoneRatio(wt, wd) == DivU64AsF64(WorkNotDone(wt, wd), wd)

\* Seconds rounded to the nearest, and rounded up, instead of truncated.
AsSecsRounded(ms) == (2 * ms + MillisPerSec) \div (2 * MillisPerSec)
AsSecsCeil(ms) == (ms + MillisPerSec - 1) \div MillisPerSec

\* Duration::as_secs of a duration in milliseconds.
AsSecs(ms) == ms \div MillisPerSec

\* not_done_to_done_ratio * seconds_since_start.as_secs() as f64
EtaSeconds(wt, wd, elapsed) == F64MulU64(NotDoneToDoneRatio(wt, wd), AsSecs(elapsed))

\* The seconds of the Duration estimate_time_left returns for a tracker
\* with work_total wt and work_done wd, elapsed milliseconds after its
\* construction.
EstimateTimeLeft(wt, wd, elapsed) == F64ToU64(EtaSeconds(wt, wd, elapsed))

\* work_done as f64 / work_total as f64 * 100f64
Percent(wd, wt) == F64MulU64(DivU64AsF64(wd, wt), 100)

\* ----------------------------------------------------------------- state

VARIABLES
    name,             \* Progress.name
    work_done,        \* Progress.work_done
    started_at,       \* Progress.started_at, an instant in milliseconds
    work_total,       \* Progress.work_total
    now,              \* the monotonic clock Instant::now() reads
    overflow_checks,  \* whether the build checks integer overflow (debug) or not (release)
    panicked,         \* the thread using the tracker has panicked
    ret,              \* the last call and what it returned
    lines,            \* the strings get_progress_string returned since the last mutator call, the last two of them
    last_set,         \* history: the argument of the last set_work_done call, 0 if there was none
    inc_sum,          \* history: the units of the increments made since then, summed
    overflowed           \* history: an increment made since then has overflowed the counter

vars == <<name, work_done, started_at, work_total, now, overflow_checks,
          panicked, ret, lines, last_set, inc_sum, overflowed>>

\* The names trackers are built with.
Names == {<<"j", "o", "b">>}

\* The instant the state machine's tracker is constructed at.
StartInstant == 3 * TickMillis

NoSecs == 0 - 1

\* The unit return value of new and of the mutators.
Unit(op) == [op |-> op, elapsed |-> 0, secs |-> NoSecs, warned |-> FALSE]

\* Progress::new(name, work_todo), the clock reading at
New(n, work_todo, at) ==
    /\ name = n
    /\ started_at = at
    /\ work_done = 0
    /\ work_total = work_todo
    /\ ret = Unit("new")
    /\ lines = <<>>
    /\ last_set = 0
    /\ inc_sum = 0
    /\ overflowed = FALSE
    /\ panicked = FALSE

Init ==
    /\ \E n \in Names, work_todo \in 0..MaxWork : New(n, work_todo, StartInstant)
    /\ now = started_at
    /\ overflow_checks \in BOOLEAN

\* ------------------------------------------------------------- mutators

\* self.work_done = self.work_done + units: the sum when it fits the word;
\* a panic that leaves the field alone in a build with overflow checks, the
\* sum modulo the word size in a build without.
AddAssign(units) ==
    IF work_done + units <= U64Max
    THEN /\ work_done' = work_done + units
         /\ UNCHANGED <<panicked, overflowed>>
    ELSE IF overflow_checks
         THEN /\ panicked' = TRUE
              /\ overflowed' = TRUE
              /\ UNCHANGED work_done
         ELSE /\ work_done' = (work_done + units) % (U64Max + 1)
              /\ overflowed' = TRUE
              /\ UNCHANGED panicked

\* The counter is kept small, or within two of the top of the word.
CounterBound(units) == work_done + units <= MaxWork \/ work_done >= U64Max - 1

inc_work_done ==
    /\ ~panicked
    /\ CounterBound(1)
    /\ AddAssign(1)
    /\ inc_sum' = inc_sum + 1
    /\ ret' = Unit("inc_work_done")
    /\ lines' = <<>>
    /\ UNCHANGED <<name, started_at, work_total, now, overflow_checks, last_set>>

inc_work_done_by ==
    \E units \in 0..MaxUnits :
        /\ ~panicked
        /\ CounterBound(units)
        /\ AddAssign(units)
        /\ inc_sum' = inc_sum + units
        /\ ret' = Unit("inc_work_done_by")
        /\ lines' = <<>>
        /\ UNCHANGED <<name, started_at, work_total, now, overflow_checks, last_set>>

\* A set_work_done that never lowers the counter.
set_work_done_monotone ==
    \E units \in (0..MaxWork) \cup {U64Max - 1, U64Max} :
        /\ ~panicked
        /\ work_done' = IF units > work_done THEN units ELSE work_done
        /\ last_set' = units
        /\ inc_sum' = 0
        /\ overflowed' = FALSE
        /\ ret' = Unit("set_work_done")
        /\ lines' = <<>>
        /\ UNCHANGED <<name, started_at, work_total, now, overflow_checks, panicked>>

set_work_done ==
    \E units \in (0..MaxWork) \cup {U64Max - 1, U64Max} :
        /\ ~panicked
        /\ work_done' = units
        /\ last_set' = units
        /\ inc_sum' = 0
        /\ overflowed' = FALSE
        /\ ret' = Unit("set_work_done")
        /\ lines' = <<>>
        /\ UNCHANGED <<name, started_at, work_total, now, overflow_checks, panicked>>

\* ---------------------------------------------------------------- readers

\* What estimate_time_left returns when the clock reads at.
Estimate(at) ==
    [op |-> "estimate_time_left",
     elapsed |-> at - started_at,
     secs |-> EstimateTimeLeft(work_total, work_done, at - started_at),
     warned |-> work_done > work_total]

\* An estimator that restarts the clock of the tracker.
estimate_time_left_restart ==
    /\ ~panicked
    /\ ret' = Estimate(now)
    /\ started_at' = now
    /\ UNCHANGED <<name, work_done, work_total, now, overflow_checks,
                   panicked, lines, last_set, inc_sum, overflowed>>

estimate_time_left ==
    /\ ~panicked
    /\ ret' = Estimate(now)
    /\ UNCHANGED <<name, work_done, started_at, work_total, now, overflow_checks,
                   panicked, lines, last_set, inc_sum, overflowed>>

\* The status line, field by field, and the text format! makes of the fields;
\* eta_at is the elapsed time the eta was computed at (history).
Line(time_elapsed, percent, eta, eta_at) ==
    LET done == Decimal(work_done)
        total == Decimal(work_total)
    IN  [name |-> name, done |-> done, total |-> total, percent |-> percent,
         elapsed |-> time_elapsed, eta |-> eta,
         eta_at |-> eta_at,
         text |-> name \o <<" ">> \o done \o <<"/">> \o total \o <<" ", "-", " ">>
                  \o percent \o <<"%", " ", "s", "t", "a", "r", "t", "e", "d", " ">>
                  \o time_elapsed
                  \o <<" ", "a", "g", "o", ",", " ", "e", "t", "a", ":", " ">>
                  \o eta]

LastTwo(s) == IF Len(s) <= 2 THEN s ELSE SubSeq(s, Len(s) - 1, Len(s))

\* A formatter that reports "done!" also when work_done is above work_total.
ProgressStringAtLeast(at1, at2, tieEven, percent, est) ==
    IF work_done >= work_total
    THEN [ret |-> [op |-> "get_progress_string", elapsed |-> at1 - started_at,
                   secs |-> NoSecs, warned |-> FALSE],
          line |-> Line(DurationDebug0(at1 - started_at, tieEven), percent, Done,
                        at1 - started_at)]
    ELSE [ret |-> [est EXCEPT !.op = "get_progress_string"],
          line |-> Line(DurationDebug0(at1 - started_at, tieEven), percent,
                        FormatDuration(est.secs), at2 - started_at)]

\* What get_progress_string returns: the clock reads at1 for the elapsed
\* time and, unless the work is done, at2 inside estimate_time_left, which
\* returns est.
ProgressString(at1, at2, tieEven, percent, est) ==
    IF work_done = work_total
    THEN [ret |-> [op |-> "get_progress_string", elapsed |-> at1 - started_at,
                   secs |-> NoSecs, warned |-> FALSE],
          line |-> Line(DurationDebug0(at1 - started_at, tieEven), percent, Done,
                        at1 - started_at)]
    ELSE [ret |-> [est EXCEPT !.op = "get_progress_string"],
          line |-> Line(DurationDebug0(at1 - started_at, tieEven), percent,
                        FormatDuration(est.secs), at2 - started_at)]

\* The clock may advance between the two readings of get_progress_string.
get_progress_string ==
    /\ ~panicked
    /\ LET percent == FormatF64Prec1(Percent(work_done, work_total))
       IN  \E dt \in {0, TickMillis} :
               LET est == Estimate(now + dt)
               IN  \E tieEven \in BOOLEAN :
                       LET r == ProgressString(now, now + dt, tieEven, percent, est)
                       IN  /\ (now + dt) - started_at <= MaxSteps * TickMillis
                           /\ now' = now + dt
                           /\ ret' = r.ret
                           /\ lines' = LastTwo(Append(lines, r.line))
    /\ UNCHANGED <<name, work_done, started_at, work_total, overflow_checks,
                   panicked, last_set, inc_sum, overflowed>>

\* Time passes.
Tick ==
    /\ now - started_at < MaxSteps * TickMillis
    /\ now' = now + TickMillis
    /\ UNCHANGED <<name, work_done, started_at, work_total, overflow_checks,
                   panicked, ret, lines, last_set, inc_sum, overflowed>>

Next ==
    \/ inc_work_done
    \/ inc_work_done_by
    \/ set_work_done
    \/ estimate_time_left
    \/ get_progress_string
    \/ Tick

Spec == Init /\ [][Next]_vars

\* ------------------------------------------------ estimator specification
\* The estimator as a function of the tracker's state and the elapsed time:
\* the tracker is in a state set_work_done and the passing of time lead to,
\* and the estimator is applied to it.

InitEst ==
    /\ \E n \in Names, wt \in 0..EstMaxTotal, wd \in 0..(EstMaxTotal + 1),
          k \in 0..(2 * EstMaxSecs + 1) :
           /\ name = n
           /\ started_at = StartInstant
           /\ work_total = wt
           /\ work_done = wd
           /\ last_set = wd
           /\ now = StartInstant + k * TickMillis
    /\ ret = Unit("set_work_done")
    /\ lines = <<>>
    /\ inc_sum = 0
    /\ overflowed = FALSE
    /\ panicked = FALSE
    /\ overflow_checks = FALSE

NextEst == estimate_time_left

SpecEst == InitEst /\ [][NextEst]_vars

\* ---------------------------------------------------------------- claims

ReadOps == {"estimate_time_left", "get_progress_string"}
IncOps == {"inc_work_done", "inc_work_done_by"}

Estimated == ret.op = "estimate_time_left"
Formatted == ret.op = "get_progress_string"

\* The string the last get_progress_string call returned.
LastLine == lines[Len(lines)]

EndsWith(s, t) == Len(t) <= Len(s) /\ SubSeq(s, Len(s) - Len(t) + 1, Len(s)) = t

EtaLabel == <<" ", "a", "g", "o", ",", " ", "e", "t", "a", ":", " ">>

\* C1: the eta of the string get_progress_string returns is "done!" exactly
\* when work_done = work_total, whatever the mutators did before and also
\* for a work_total of 0; in every other state, work_done below or above
\* work_total, it is the rendering of what estimate_time_left returns.
C1_EtaDoneIff ==
    Formatted =>
        /\ LastLine.eta = Done <=> work_done = work_total
        /\ EndsWith(LastLine.text, EtaLabel \o Done) <=> work_done = work_total
        /\ work_done # work_total =>
               /\ LastLine.eta = FormatDuration(
                      F64ToU64(F64MulU64(
                          DivU64AsF64(IF work_done > work_total THEN work_total
                                      ELSE work_total - work_done, work_done),
                          ret.elapsed \div MillisPerSec)))
               /\ EndsWith(LastLine.text, EtaLabel \o LastLine.eta)

C1_Witness ==
    /\ Formatted
    /\ work_done > work_total
    /\ work_total > 0
    /\ LastLine.eta # Done
    /\ inc_sum > 0

\* C2 (as claimed): with work_done > work_total the estimator takes the
\* remaining work to be zero and returns zero seconds at every elapsed time.
C2_OverdoneIsZero ==
    (Estimated /\ work_done > work_total) => ret.secs = 0

\* C3 (as claimed): an increment that does not fit the word never wraps the
\* counter; it ends in a panic and leaves the counter alone.
C3_NoSilentWrap ==
    [][(ret'.op \in IncOps /\ work_done + (inc_sum' - inc_sum) > U64Max)
           => (panicked' /\ work_done' = work_done)]_vars

\* C4 (as claimed): for 0 < work_done <= work_total the estimate is
\* (work_total - work_done) / work_done times the elapsed time, fractions of
\* a second of the elapsed time included, truncated to whole seconds.
C4_RealElapsed ==
    (Estimated /\ 0 < work_done /\ work_done <= work_total) =>
        ret.secs = ((work_total - work_done) * ret.elapsed) \div (work_done * MillisPerSec)

\* C4 (amended): for 0 < work_done <= work_total the estimate is taken over
\* the whole seconds elapsed: with s the elapsed time truncated to seconds it
\* is floor((work_total - work_done) * s / work_done), or one less where
\* that quotient is an integer the f64 arithmetic falls short of; it is
\* exact when work_done divides work_total - work_done, so at half of the
\* work after one second it is one second.
C4_WholeSecondsElapsed ==
    (Estimated /\ 0 < work_done /\ work_done <= work_total) =>
        LET s == ret.elapsed \div MillisPerSec
            x == (work_total - work_done) * s
            floor == x \div work_done
        IN  /\ ret.secs \in {floor, floor - 1}
            /\ ret.secs >= 0
            /\ (x % work_done # 0 \/ (work_total - work_done) % work_done = 0)
                   => ret.secs = floor
            /\ (2 * work_done = work_total /\ s = 1) => ret.secs = 1

C4_Witness ==
    /\ Estimated
    /\ work_done = 11
    /\ work_total = 26
    /\ ret.elapsed = 11 * MillisPerSec + TickMillis
    /\ ret.secs = 14

\* C5 (as claimed): with work_done = 0 and work_total > 0 the estimator
\* returns zero seconds at every elapsed time.
C5_NothingDoneIsZero ==
    (Estimated /\ work_done = 0 /\ work_total > 0) => ret.secs = 0

\* C5 (amended): with work_done = 0 and work_total > 0 the estimator does
\* not fail; it returns zero seconds while less than a whole second has
\* elapsed and u64::MAX seconds from the first whole second on.
C5_NothingDoneZeroThenMax ==
    (Estimated /\ work_done = 0 /\ work_total > 0) =>
        /\ ~panicked
        /\ ret.secs = IF ret.elapsed < MillisPerSec THEN 0 ELSE U64Max

C5_Witness ==
    /\ Estimated
    /\ work_done = 0
    /\ work_total > 0
    /\ ret.elapsed >= MillisPerSec
    /\ ret.secs = U64Max

\* C6: as long as no increment has overflowed since the last set_work_done,
\* work_done is the argument of the last set_work_done call (0 if there was
\* none) plus the units of the increments made after it; right after
\* set_work_done it is the argument, below or above the previous value and
\* work_total alike.
C6_WorkDoneIsSetPlusIncrements ==
    ~overflowed =>
        /\ work_done = last_set + inc_sum
        /\ ret.op = "set_work_done" => work_done = last_set

C6_Witness ==
    /\ ~overflowed
    /\ last_set > 0
    /\ inc_sum > 0
    /\ work_done > work_total
    /\ ret.op = "inc_work_done_by"

\* C7: no step changes name, work_total or started_at, and a step of
\* get_progress_string or estimate_time_left changes no field at all.
C7_FieldsFixed ==
    [][/\ name' = name
       /\ work_total' = work_total
       /\ started_at' = started_at
       /\ ret'.op \in ReadOps => work_done' = work_done]_vars

C7_Witness ==
    /\ Formatted
    /\ Len(lines) = 2
    /\ work_done > 0
    /\ now > started_at

\* C8 (as claimed): two consecutive get_progress_string calls without a
\* mutator call in between return strings that agree in every field but the
\* elapsed time.
C8_OnlyElapsedDiffers ==
    Len(lines) = 2 =>
        /\ lines[1].name = lines[2].name
        /\ lines[1].done = lines[2].done
        /\ lines[1].total = lines[2].total
        /\ lines[1].percent = lines[2].percent
        /\ lines[1].eta = lines[2].eta

\* C8 (amended): two such strings agree in the name, work_done, work_total
\* and percentage fields; they agree in the eta field too when
\* work_done = work_total or when the same whole number of seconds had
\* elapsed at both calls.
C8_ElapsedAndEtaDiffer ==
    Len(lines) = 2 =>
        /\ lines[1].name = lines[2].name
        /\ lines[1].done = lines[2].done
        /\ lines[1].total = lines[2].total
        /\ lines[1].percent = lines[2].percent
        /\ (\/ work_done = work_total
            \/ lines[1].eta_at \div MillisPerSec = lines[2].eta_at \div MillisPerSec)
               => lines[1].eta = lines[2].eta

C8_Witness ==
    /\ Len(lines) = 2
    /\ work_done # work_total
    /\ work_done > 0
    /\ lines[1].eta_at # lines[2].eta_at
    /\ lines[1].eta_at \div MillisPerSec = lines[2].eta_at \div MillisPerSec
    /\ lines[1].elapsed # lines[2].elapsed
    /\ lines[1].eta = lines[2].eta
    /\ lines[1].eta # <<"0", "s">>

\* C9: while less than a whole second has elapsed the estimator returns zero
\* seconds for every work_total and work_done, and get_progress_string
\* renders the eta "0s" unless work_done = work_total.
C9_ZeroBeforeFirstSecond ==
    (ret.op \in ReadOps /\ ret.secs # NoSecs /\ ret.elapsed < MillisPerSec) =>
        /\ ret.secs = 0
        /\ Formatted => /\ LastLine.eta = <<"0", "s">>
                        /\ EndsWith(LastLine.text, EtaLabel \o <<"0", "s">>)

C9_Witness ==
    /\ Formatted
    /\ work_done > work_total
    /\ work_total > 0
    /\ ret.elapsed > 0
    /\ ret.elapsed < MillisPerSec
    /\ LastLine.eta = <<"0", "s">>

\* C10: at a fixed work_total and elapsed time the estimate does not grow
\* when work_done grows by one within 1..work_total (hence, every state of
\* the range being covered, not when it grows by more), it is zero at
\* work_done = work_total, and at a fixed work_done in that range it does
\* not shrink when the elapsed time grows.
C10_Monotone ==
    (Estimated /\ 1 <= work_done /\ work_done <= work_total) =>
        /\ work_done < work_total =>
               EstimateTimeLeft(work_total, work_done + 1, ret.elapsed) <= ret.secs
        /\ work_done = work_total => ret.secs = 0
        /\ EstimateTimeLeft(work_total, work_done, ret.elapsed + TickMillis) >= ret.secs

C10_Witness ==
    /\ Estimated
    /\ 1 <= work_done
    /\ work_done < work_total
    /\ ret.secs > 0
    /\ EstimateTimeLeft(work_total, work_done + 1, ret.elapsed) < ret.secs
    /\ EstimateTimeLeft(work_total, work_done, ret.elapsed + MillisPerSec) > ret.secs

====
